---- MODULE Spec2Model ----
(***************************************************************************)
(* Cache-aside orchestration of the FlashCard cloud functions              *)
(* (src/functions/src/index.ts): the two HTTP handlers getFlashcardDeck    *)
(* and getSpeechAudio, the Firestore collections they share, and the       *)
(* Gemini provider calls they make.  Every await of a handler is one       *)
(* interleaving point: a handler's step runs from the settling of one      *)
(* awaited promise to the next await (or to the response).                 *)
(***************************************************************************)
EXTENDS Integers, Sequences, FiniteSets, TLC

(***************************************************************************)
(* Bounds of the model.                                                    *)
(***************************************************************************)
\* number of HTTP requests (function invocations) of one behaviour
NumReqs == 2
\* largest number of card descriptions the text call returns when requests
\* do not overlap (SpecSeq)
MaxCards == 2
\* largest number of card descriptions the text call returns when requests
\* run concurrently (Spec)
MaxRaceCards == 1
MaxFetches == 3

Reqs == 1..NumReqs

(***************************************************************************)
(* Strings the code computes on are sequences of one-character strings.    *)
(***************************************************************************)
English == <<"E", "n", "g", "l", "i", "s", "h">>
French == <<"F", "r", "e", "n", "c", "h">>
Spanish == <<"S", "p", "a", "n", "i", "s", "h">>
Beginner == <<"B", "e", "g", "i", "n", "n", "e", "r">>
Salut == <<"S", "a", "l", "u", "t", "!">>
Merci == <<"M", "e", "r", "c", "i">>
EmptyString == <<>>
\* An optional value: <<>> when absent (JavaScript undefined), <<x>> when x.
Undefined == <<>>
Some(x) == <<x>>

Letters ==
  {"a", "b", "c", "d", "e", "f", "g", "h", "i", "j", "k", "l", "m",
   "n", "o", "p", "q", "r", "s", "t", "u", "v", "w", "x", "y", "z",
   "A", "B", "C", "D", "E", "F", "G", "H", "I", "J", "K", "L", "M",
   "N", "O", "P", "Q", "R", "S", "T", "U", "V", "W", "X", "Y", "Z"}
Digits == {"0", "1", "2", "3", "4", "5", "6", "7", "8", "9"}
\* the class \s of the deck key's regular expression
Whitespace == {" ", "\t", "\n", "\r"}

\* A JSON number in a body is a sequence headed by a tag no string has; it is
\* truthy, and has no method replace.
Number42 == <<"<number>", "4", "2">>
IsString(v) == IF v = <<>> THEN TRUE ELSE Head(v) # "<number>"

\* !x of a body field: true of undefined and of the empty string
Falsy(x) == x = Undefined \/ x = Some(EmptyString)

\* `${x}` of a body field: the string itself, "undefined" of undefined
TemplateString(x) ==
  IF x = Undefined THEN <<"u", "n", "d", "e", "f", "i", "n", "e", "d">> ELSE x[1]

RECURSIVE SkipWhitespace(_)
SkipWhitespace(s) ==
  IF s # <<>> /\ Head(s) \in Whitespace THEN SkipWhitespace(Tail(s)) ELSE s

\* mutant: every whitespace character becomes an underscore of its own
ReplaceWhitespaceEach(s) ==
  [i \in 1..Len(s) |-> IF s[i] \in Whitespace THEN "_" ELSE s[i]]

\* s.replace(/\s+/g, "_")
RECURSIVE ReplaceWhitespaceRuns(_)
ReplaceWhitespaceRuns(s) ==
  IF s = <<>> THEN <<>>
  ELSE IF Head(s) \in Whitespace
       THEN <<"_">> \o ReplaceWhitespaceRuns(SkipWhitespace(Tail(s)))
       ELSE <<Head(s)>> \o ReplaceWhitespaceRuns(Tail(s))

\* s.replace(/[^a-zA-Z0-9]/g, "_")
ReplaceNonAlnum(s) ==
  [i \in 1..Len(s) |-> IF s[i] \in Letters \cup Digits THEN s[i] ELSE "_"]

\* s.substring(0, n)
Substring0(s, n) == SubSeq(s, 1, IF Len(s) < n THEN Len(s) ELSE n)

\* length the audio key's sanitised text is cut to
AudioKeyTextLen == 100

\* mutant: the difficulty is left out of the deck key
deriveDeckKeyWithoutDifficulty(sourceLang, targetLang, difficulty) ==
  ReplaceWhitespaceRuns(<<"d", "e", "c", "k", "_">> \o sourceLang \o <<"_">>
                        \o targetLang)

\* `deck_${sourceLang}_${targetLang}_${difficulty}`.replace(/\s+/g, "_")
deriveDeckKey(sourceLang, targetLang, difficulty) ==
  ReplaceWhitespaceRuns(<<"d", "e", "c", "k", "_">> \o sourceLang \o <<"_">>
                        \o targetLang \o <<"_">> \o difficulty)

\* mutant: the sanitised text is not cut
deriveAudioKeyUncut(text) ==
  <<"a", "u", "d", "i", "o", "_">> \o ReplaceNonAlnum(text)

\* `audio_${text.replace(/[^a-zA-Z0-9]/g, "_").substring(0, 100)}`
deriveAudioKey(text) ==
  <<"a", "u", "d", "i", "o", "_">>
    \o Substring0(ReplaceNonAlnum(text), AudioKeyTextLen)

(***************************************************************************)
(* What the outside world supplies: requests and provider answers.         *)
(***************************************************************************)
DeckBody(s, t, d) == [sourceLang |-> s, targetLang |-> t, difficulty |-> d]
ValidDeckBodies ==
  {DeckBody(Some(English), Some(t), Some(Beginner)) : t \in {French, Spanish}}
InvalidDeckBodies ==
  {DeckBody(Undefined, Some(French), Some(Beginner)),
   DeckBody(Some(English), Undefined, Some(Beginner)),
   DeckBody(Some(English), Some(French), Undefined)}
DeckRequests ==
  [fn : {"getFlashcardDeck"}, method : {"POST"},
   body : ValidDeckBodies \cup InvalidDeckBodies]
    \cup [fn : {"getFlashcardDeck"}, method : {"GET"},
          body : {DeckBody(Some(English), Some(French), Undefined)}]

AudioBody(t) == [text |-> t]
ValidAudioBodies == {AudioBody(Some(t)) : t \in {Salut, Merci}}
InvalidAudioBodies == {AudioBody(Undefined), AudioBody(Some(EmptyString))}
AudioRequests ==
  [fn : {"getSpeechAudio"}, method : {"POST"},
   body : ValidAudioBodies \cup InvalidAudioBodies]
    \cup [fn : {"getSpeechAudio"}, method : {"PUT"},
          body : {AudioBody(Undefined)}]

\* card descriptions the text model can return: { word, translation, type, sentence }
Card(w, tr, ty, se) == [word |-> w, translation |-> tr, type |-> ty, sentence |-> se]
CardPool ==
  <<Card("chat", "cat", "Noun", "Le chat dort."),
    Card("manger", "eat", "verb", "Je veux manger."),
    Card("petit", "small", "ADJECTIVE", "Un petit chien."),
    Card("vite", "quickly", "adverb", "Il court vite.")>>
\* JSON.parse(response.text): the first n cards of the pool, n = 0..max
TextResultsUpTo(max) == {SubSeq(CardPool, 1, n) : n \in 0..max}
TextResults == TextResultsUpTo(MaxCards) \cup TextResultsUpTo(MaxRaceCards)

\* what one image call of the provider ends in: a part with inlineData, a
\* response without inlineData, or a rejected call
ImageOutcomes ==
  {[kind |-> "inlineData", data |-> "iVBORw0KGgo"],
   [kind |-> "noInlineData", data |-> ""],
   [kind |-> "rejected", data |-> ""]}
\* an image promise Promise.allSettled still waits for
Pending == [status |-> "pending", value |-> "", failed |-> FALSE]

\* what the speech call ends in: a first part with inlineData.data, a response
\* without it (a rejected call is the action TtsRejected)
TtsOutcomes ==
  {[kind |-> "inlineData", data |-> "UklGRiQAAABXQVZF"],
   [kind |-> "inlineData", data |-> "UklGRkoBAABXQVZF"],
   [kind |-> "noInlineData", data |-> ""]}

\* what a rejected provider or store call, or a throwing JSON.parse, carries
\* as error.message
ProviderErrors ==
  {"API key not valid. Please pass a valid API key.",
   "14 UNAVAILABLE: No connection established"}

\* String.prototype.toLowerCase on the type strings the provider returns
toLowerCase(s) ==
  CASE s = "Noun" -> "noun"
    [] s = "ADJECTIVE" -> "adjective"
    [] OTHER -> s

(***************************************************************************)
(* State.                                                                  *)
(***************************************************************************)
VARIABLES
  pc,                \* where each invocation stands: the await it is suspended at
  request,           \* request.method and request.body of each invocation
  cacheKey,          \* const cacheKey
  doc,               \* const doc = await docRef.get(): <<>> until it resolved
  cardDescriptions,  \* const cardDescriptions: <<>> until parsed, then <<list>>
  imageResults,      \* what each image promise settled with, Pending before
  generated,         \* the document to store, with newFlashcards or
                     \* base64Audio in it: <<>> until computed
  responses,         \* what was sent on `response`, in order
  calls,             \* calls issued so far to the provider and to the store
  settled,           \* how the awaited store and provider calls ended
  flashcardDecks,    \* db.collection("flashcardDecks"): document id -> data
  speechAudio,       \* db.collection("speechAudio"): document id -> data
  app,               \* the useState values of the App component
  fetches,           \* the fetchCards calls of the App component so far
  shownFor           \* the arguments of the call whose result is in `cards`

\* A stored document is modelled by the field the handlers read back (cards,
\* audioContent); createdAt, which no code reads, is left out.  The locals of
\* an invocation (cacheKey .. generated) are cleared when the handler returns.

locals == <<cacheKey, doc, cardDescriptions, imageResults, generated>>
store == <<flashcardDecks, speechAudio>>
server == <<pc, request, locals, responses, calls, settled, store>>
client == <<app, fetches, shownFor>>
vars == <<server, client>>

\* a collection without documents
EmptyCollection == [id \in {} |-> [cards |-> <<>>]]

NoCalls == [text |-> 0, image |-> 0, speech |-> 0, get |-> 0, set |-> 0]
NoneSettled == [get |-> "none", text |-> "none", speech |-> "none", set |-> "none"]
NoRequest == [fn |-> "", method |-> "", body |-> <<>>]

\* error === null
Null == <<>>
Fetches == 1..MaxFetches
NotCalled == [state |-> "none", args |-> <<>>]

\* the App component before its first effect: the initial values of useState.
\* currentIndex, isFlipped and the swipe state, which no fetch reads, are
\* left out.
AppInit ==
  /\ app = [difficulty |-> Beginner, sourceLang |-> English, targetLang |-> French,
            cards |-> <<>>, isLoading |-> FALSE, error |-> Null]
  /\ fetches = [f \in Fetches |-> NotCalled]
  /\ shownFor = <<>>

Init ==
  /\ AppInit
  /\ pc = [r \in Reqs |-> "idle"]
  /\ request = [r \in Reqs |-> NoRequest]
  /\ cacheKey = [r \in Reqs |-> <<>>]
  /\ doc = [r \in Reqs |-> <<>>]
  /\ cardDescriptions = [r \in Reqs |-> <<>>]
  /\ imageResults = [r \in Reqs |-> <<>>]
  /\ generated = [r \in Reqs |-> <<>>]
  /\ responses = [r \in Reqs |-> <<>>]
  /\ calls = [r \in Reqs |-> NoCalls]
  /\ settled = [r \in Reqs |-> NoneSettled]
  /\ flashcardDecks = EmptyCollection
  /\ speechAudio = EmptyCollection

(***************************************************************************)
(* Pieces of the handlers.                                                 *)
(***************************************************************************)
\* response.status(n).send(text) and response.status(n).json(value)
Text(status, message) == [status |-> status, send |-> message]
Json(status, value) == [status |-> status, json |-> value]
Send(r, resp) == responses' = [responses EXCEPT ![r] = Append(@, resp)]

\* the handler suspends at an await
Await(r, label) == pc' = [pc EXCEPT ![r] = label]

\* the handler returns: its locals are gone
Return(r) ==
  /\ pc' = [pc EXCEPT ![r] = "done"]
  /\ cacheKey' = [cacheKey EXCEPT ![r] = <<>>]
  /\ doc' = [doc EXCEPT ![r] = <<>>]
  /\ cardDescriptions' = [cardDescriptions EXCEPT ![r] = <<>>]
  /\ imageResults' = [imageResults EXCEPT ![r] = <<>>]
  /\ generated' = [generated EXCEPT ![r] = <<>>]

\* one more call of the kind `kind` by invocation r
Count(r, kind, n) == calls' = [calls EXCEPT ![r][kind] = @ + n]

\* the awaited call `kind` of invocation r ended in `how`
Settle(r, kind, how) == settled' = [settled EXCEPT ![r][kind] = how]

\* invocations are taken in order of arrival: slot r is the r-th request
Arrives(r) == pc[r] = "idle" /\ (IF r = 1 THEN TRUE ELSE pc[r - 1] # "idle")

\* the snapshot collection.doc(id).get() resolves with: doc.exists and
\* doc.data() (<<>> when there is no document)
Snapshot(collection, id) ==
  IF id \in DOMAIN collection
  THEN [exists |-> TRUE, data |-> Some(collection[id])]
  ELSE [exists |-> FALSE, data |-> Undefined]

\* mutant: set() replaces the collection by the one document
SetDocDroppingOthers(collection, id, data) == [k \in {id} |-> data]

\* the collection after collection.doc(id).set(data): the document is
\* created, or replaced as a whole
SetDoc(collection, id, data) ==
  [k \in DOMAIN collection \cup {id} |-> IF k = id THEN data ELSE collection[k]]

\* mutant: the handler never takes the document it found for a hit
CacheHitNever(snap) == FALSE

\* if (doc.exists)
CacheHit(snap) == snap.exists

\* mutant: a hit answers with the whole document, not its cards
HitCardsWholeDocument(snap) == snap.data[1]

\* doc.data()?.cards
HitCards(snap) == snap.data[1].cards

\* { audioContent: doc.data()?.audioContent }
HitAudio(snap) == [audioContent |-> snap.data[1].audioContent]

\* mutant: the difficulty is not validated
MissingDeckParametersNoDifficulty(body) ==
  Falsy(body.sourceLang) \/ Falsy(body.targetLang)

\* !sourceLang || !targetLang || !difficulty
MissingDeckParameters(body) ==
  Falsy(body.sourceLang) \/ Falsy(body.targetLang) \/ Falsy(body.difficulty)

\* !text
MissingText(body) == Falsy(body.text)

\* text.replace is a function: text is a string
HasReplace(x) == IF x = Undefined THEN FALSE ELSE IsString(x[1])

\* _generateImageFromAPI: the string its promise is fulfilled with
generateImageFromAPI(outcome) ==
  IF outcome.kind = "inlineData"
  THEN "data:image/png;base64," \o outcome.data
  ELSE "no-image"

\* what Promise.allSettled reports of one image promise: _generateImageFromAPI
\* catches every error, so its promise is never rejected; `failed` records
\* whether the provider call gave no image
Settled(outcome) ==
  [status |-> "fulfilled", value |-> generateImageFromAPI(outcome),
   failed |-> outcome.kind # "inlineData"]

\* mutant: the images are attached in reverse order
AssembleDeckReversedImages(cards, results) ==
  [index \in 1..Len(cards) |->
     [word |-> cards[index].word,
      translation |-> cards[index].translation,
      type |-> toLowerCase(cards[index].type),
      sentence |-> cards[index].sentence,
      image |-> IF results[Len(cards) + 1 - index].status = "fulfilled"
                THEN results[Len(cards) + 1 - index].value
                ELSE "no-image"]]

\* cardDescriptions.map((card, index) => ({...card, type, image}))
AssembleDeck(cards, results) ==
  [index \in 1..Len(cards) |->
     [word |-> cards[index].word,
      translation |-> cards[index].translation,
      type |-> toLowerCase(cards[index].type),
      sentence |-> cards[index].sentence,
      image |-> IF results[index].status = "fulfilled"
                THEN results[index].value
                ELSE "no-image"]]

(***************************************************************************)
(* getFlashcardDeck.                                                       *)
(***************************************************************************)
\* mutant: the body is validated before the method is looked at
DeckReceiveValidatesFirst(r, q) ==
  /\ Arrives(r)
  /\ request' = [request EXCEPT ![r] = q]
  /\ IF MissingDeckParameters(q.body)
     THEN /\ Send(r, Text(400, "Missing required parameters."))
          /\ Return(r)
          /\ UNCHANGED calls
     ELSE IF q.method # "POST"
     THEN /\ Send(r, Text(405, "Method Not Allowed"))
          /\ Return(r)
          /\ UNCHANGED calls
     ELSE /\ cacheKey' =
               [cacheKey EXCEPT ![r] =
                  deriveDeckKey(TemplateString(q.body.sourceLang),
                                TemplateString(q.body.targetLang),
                                TemplateString(q.body.difficulty))]
          /\ Count(r, "get", 1)
          /\ Await(r, "get")
          /\ UNCHANGED <<doc, cardDescriptions, imageResults, generated,
                         responses>>
  /\ UNCHANGED <<settled, store>>
  /\ UNCHANGED client

\* the handler up to its first await: method check, validation, key, get()
DeckReceive(r, q) ==
  /\ Arrives(r)
  /\ request' = [request EXCEPT ![r] = q]
  /\ IF q.method # "POST"
     THEN /\ Send(r, Text(405, "Method Not Allowed"))
          /\ Return(r)
          /\ UNCHANGED calls
     ELSE IF MissingDeckParameters(q.body)
     THEN /\ Send(r, Text(400, "Missing required parameters."))
          /\ Return(r)
          /\ UNCHANGED calls
     ELSE /\ cacheKey' =
               [cacheKey EXCEPT ![r] =
                  deriveDeckKey(TemplateString(q.body.sourceLang),
                                TemplateString(q.body.targetLang),
                                TemplateString(q.body.difficulty))]
          /\ Count(r, "get", 1)
          /\ Await(r, "get")
          /\ UNCHANGED <<doc, cardDescriptions, imageResults, generated,
                         responses>>
  /\ UNCHANGED <<settled, store>>
  /\ UNCHANGED client

\* docRef.get() resolves: a hit is answered from the document, a miss calls
\* _generateFlashcardsFromAPI, which awaits the text call
DeckGetResolved(r) ==
  /\ pc[r] = "get"
  /\ request[r].fn = "getFlashcardDeck"
  /\ LET snap == Snapshot(flashcardDecks, cacheKey[r])
     IN IF CacheHit(snap)
        THEN /\ Settle(r, "get", "exists")
             /\ Send(r, Json(200, HitCards(snap)))
             /\ Return(r)
             /\ UNCHANGED calls
        ELSE /\ Settle(r, "get", "absent")
             /\ doc' = [doc EXCEPT ![r] = Some(snap)]
             /\ Count(r, "text", 1)
             /\ Await(r, "text")
             /\ UNCHANGED <<cacheKey, cardDescriptions, imageResults,
                            generated, responses>>
  /\ UNCHANGED <<request, store>>
  /\ UNCHANGED client

\* mutant: the catch block sends the message of the error it caught
DeckCatchSendsErrorMessage(r, error) ==
  /\ Send(r, Text(500, error))
  /\ Return(r)
  /\ UNCHANGED <<request, calls, store>>

\* the catch block of getFlashcardDeck: `error` is logged, a fixed text is sent
DeckCatch(r, error) ==
  /\ Send(r, Text(500, "Internal Server Error while generating flashcards."))
  /\ Return(r)
  /\ UNCHANGED <<request, calls, store>>

\* mutant: a failed read is taken for a miss and the deck is generated
DeckGetRejectedGenerates(r) ==
  /\ pc[r] = "get"
  /\ request[r].fn = "getFlashcardDeck"
  /\ Settle(r, "get", "rejected")
  /\ Count(r, "text", 1)
  /\ Await(r, "text")
  /\ UNCHANGED <<request, cacheKey, doc, cardDescriptions, imageResults,
                 generated, responses, store>>
  /\ UNCHANGED client

\* docRef.get() rejects
DeckGetRejected(r) ==
  /\ pc[r] = "get"
  /\ request[r].fn = "getFlashcardDeck"
  /\ Settle(r, "get", "rejected")
  /\ \E error \in ProviderErrors : DeckCatch(r, error)
  /\ UNCHANGED client

\* the text call resolves and parses: every image call is launched, then
\* Promise.allSettled is awaited
TextResolved(r, cards) ==
  /\ pc[r] = "text"
  /\ cards \in TextResults
  /\ Settle(r, "text", "resolved")
  /\ cardDescriptions' = [cardDescriptions EXCEPT ![r] = Some(cards)]
  /\ imageResults' = [imageResults EXCEPT ![r] = [i \in 1..Len(cards) |-> Pending]]
  /\ Count(r, "image", Len(cards))
  /\ Await(r, "images")
  /\ UNCHANGED <<request, cacheKey, doc, generated, responses, store>>
  /\ UNCHANGED client

\* mutant: a failed text call is taken for an empty deck, which is stored
TextRejectedStoresEmptyDeck(r) ==
  /\ pc[r] = "text"
  /\ Settle(r, "text", "rejected")
  /\ generated' = [generated EXCEPT ![r] = Some([cards |-> <<>>])]
  /\ Count(r, "set", 1)
  /\ Await(r, "set")
  /\ UNCHANGED <<request, cacheKey, doc, cardDescriptions, imageResults,
                 responses, store>>
  /\ UNCHANGED client

\* mutant: a failed text call is made once more before the request fails
TextRejectedRetries(r) ==
  /\ pc[r] = "text"
  /\ IF calls[r].text < 2
     THEN /\ Count(r, "text", 1)
          /\ UNCHANGED <<pc, request, locals, responses, settled, store>>
     ELSE /\ Settle(r, "text", "rejected")
          /\ \E error \in ProviderErrors : DeckCatch(r, error)
  /\ UNCHANGED client

\* the text call rejects, or JSON.parse(response.text) throws
TextRejected(r) ==
  /\ pc[r] = "text"
  /\ Settle(r, "text", "rejected")
  /\ \E error \in ProviderErrors : DeckCatch(r, error)
  /\ UNCHANGED client

\* one image call ends, in any order
ImageSettled(r, i, outcome) ==
  /\ pc[r] = "images"
  /\ i \in 1..Len(imageResults[r])
  /\ imageResults[r][i] = Pending
  /\ outcome \in ImageOutcomes
  /\ imageResults' = [imageResults EXCEPT ![r][i] = Settled(outcome)]
  /\ UNCHANGED <<pc, request, cacheKey, doc, cardDescriptions, generated,
                 responses, calls, settled, store>>
  /\ UNCHANGED client

\* mutant: the deck is sent before docRef.set() is awaited
AllSettledRespondsFirst(r) ==
  /\ pc[r] = "images"
  /\ \A i \in 1..Len(imageResults[r]) : imageResults[r][i] # Pending
  /\ generated' =
       [generated EXCEPT ![r] =
          Some([cards |-> AssembleDeck(cardDescriptions[r][1], imageResults[r])])]
  /\ Send(r, Json(200, AssembleDeck(cardDescriptions[r][1], imageResults[r])))
  /\ cardDescriptions' = [cardDescriptions EXCEPT ![r] = <<>>]
  /\ imageResults' = [imageResults EXCEPT ![r] = <<>>]
  /\ Count(r, "set", 1)
  /\ Await(r, "set")
  /\ UNCHANGED <<request, cacheKey, doc, settled, store>>
  /\ UNCHANGED client

\* mutant: the wait ends with the first image call that fails (Promise.all)
AllSettledShortCircuits(r) ==
  /\ pc[r] = "images"
  /\ \/ \A i \in 1..Len(imageResults[r]) : imageResults[r][i] # Pending
     \/ \E i \in 1..Len(imageResults[r]) : imageResults[r][i].failed
  /\ generated' =
       [generated EXCEPT ![r] =
          Some([cards |-> AssembleDeck(cardDescriptions[r][1], imageResults[r])])]
  /\ cardDescriptions' = [cardDescriptions EXCEPT ![r] = <<>>]
  /\ imageResults' = [imageResults EXCEPT ![r] = <<>>]
  /\ Count(r, "set", 1)
  /\ Await(r, "set")
  /\ UNCHANGED <<request, cacheKey, doc, responses, settled, store>>
  /\ UNCHANGED client

\* mutant: a deck without cards is thrown away as an error
AllSettledRejectsEmptyDeck(r) ==
  /\ pc[r] = "images"
  /\ \A i \in 1..Len(imageResults[r]) : imageResults[r][i] # Pending
  /\ IF cardDescriptions[r][1] = <<>>
     THEN /\ \E error \in ProviderErrors : DeckCatch(r, error)
          /\ UNCHANGED settled
     ELSE /\ generated' =
               [generated EXCEPT ![r] =
                  Some([cards |-> AssembleDeck(cardDescriptions[r][1],
                                               imageResults[r])])]
          /\ cardDescriptions' = [cardDescriptions EXCEPT ![r] = <<>>]
          /\ imageResults' = [imageResults EXCEPT ![r] = <<>>]
          /\ Count(r, "set", 1)
          /\ Await(r, "set")
          /\ UNCHANGED <<request, cacheKey, doc, responses, settled, store>>
  /\ UNCHANGED client

\* Promise.allSettled resolves: the deck is assembled, _generateFlashcardsFromAPI
\* returns it (its locals are gone) and docRef.set() is called
AllSettled(r) ==
  /\ pc[r] = "images"
  /\ \A i \in 1..Len(imageResults[r]) : imageResults[r][i] # Pending
  /\ generated' =
       [generated EXCEPT ![r] =
          Some([cards |-> AssembleDeck(cardDescriptions[r][1], imageResults[r])])]
  /\ cardDescriptions' = [cardDescriptions EXCEPT ![r] = <<>>]
  /\ imageResults' = [imageResults EXCEPT ![r] = <<>>]
  /\ Count(r, "set", 1)
  /\ Await(r, "set")
  /\ UNCHANGED <<request, cacheKey, doc, responses, settled, store>>
  /\ UNCHANGED client

\* mutant: set() merges the new cards into the document already stored
DeckSetResolvedMerging(r) ==
  /\ pc[r] = "set"
  /\ request[r].fn = "getFlashcardDeck"
  /\ Settle(r, "set", "resolved")
  /\ flashcardDecks' =
       SetDoc(flashcardDecks, cacheKey[r],
              IF cacheKey[r] \in DOMAIN flashcardDecks
              THEN [cards |-> flashcardDecks[cacheKey[r]].cards
                                \o generated[r][1].cards]
              ELSE generated[r][1])
  /\ Send(r, Json(200, generated[r][1].cards))
  /\ Return(r)
  /\ UNCHANGED <<request, calls, speechAudio>>
  /\ UNCHANGED client

\* mutant: the deck is stored with its cards in reverse order
DeckSetResolvedStoresReversed(r) ==
  /\ pc[r] = "set"
  /\ request[r].fn = "getFlashcardDeck"
  /\ Settle(r, "set", "resolved")
  /\ flashcardDecks' =
       SetDoc(flashcardDecks, cacheKey[r],
              [cards |-> [i \in 1..Len(generated[r][1].cards) |->
                            generated[r][1].cards[
                              Len(generated[r][1].cards) + 1 - i]]])
  /\ Send(r, Json(200, generated[r][1].cards))
  /\ Return(r)
  /\ UNCHANGED <<request, calls, speechAudio>>
  /\ UNCHANGED client

\* docRef.set() resolves: the document is stored, then the deck is sent
DeckSetResolved(r) ==
  /\ pc[r] = "set"
  /\ request[r].fn = "getFlashcardDeck"
  /\ Settle(r, "set", "resolved")
  /\ flashcardDecks' = SetDoc(flashcardDecks, cacheKey[r], generated[r][1])
  /\ Send(r, Json(200, generated[r][1].cards))
  /\ Return(r)
  /\ UNCHANGED <<request, calls, speechAudio>>
  /\ UNCHANGED client

\* mutant: a failed docRef.set() is swallowed and the handler never responds
DeckSetRejectedHangs(r) ==
  /\ pc[r] = "set"
  /\ request[r].fn = "getFlashcardDeck"
  /\ Settle(r, "set", "rejected")
  /\ Await(r, "hung")
  /\ UNCHANGED <<request, locals, responses, calls, store>>
  /\ UNCHANGED client

\* docRef.set() rejects
DeckSetRejected(r) ==
  /\ pc[r] = "set"
  /\ request[r].fn = "getFlashcardDeck"
  /\ Settle(r, "set", "rejected")
  /\ \E error \in ProviderErrors : DeckCatch(r, error)
  /\ UNCHANGED client

(***************************************************************************)
(* getSpeechAudio.                                                         *)
(***************************************************************************)
\* the handler up to its first await: method check, validation, key, get()
AudioReceive(r, q) ==
  /\ Arrives(r)
  /\ request' = [request EXCEPT ![r] = q]
  /\ IF q.method # "POST"
     THEN /\ Send(r, Text(405, "Method Not Allowed"))
          /\ Return(r)
          /\ UNCHANGED calls
     ELSE IF MissingText(q.body)
     THEN /\ Send(r, Text(400, "Missing 'text' parameter."))
          /\ Return(r)
          /\ UNCHANGED calls
     ELSE IF ~HasReplace(q.body.text)
     THEN \* text.replace(...) throws a TypeError, which the catch block answers
          /\ Send(r, Text(500, "Internal Server Error while generating speech."))
          /\ Return(r)
          /\ UNCHANGED calls
     ELSE /\ cacheKey' = [cacheKey EXCEPT ![r] = deriveAudioKey(q.body.text[1])]
          /\ Count(r, "get", 1)
          /\ Await(r, "get")
          /\ UNCHANGED <<doc, cardDescriptions, imageResults, generated,
                         responses>>
  /\ UNCHANGED <<settled, store>>
  /\ UNCHANGED client

\* mutant: the hit branch sends the cached audio and does not return
AudioGetResolvedWithoutReturn(r) ==
  /\ pc[r] = "get"
  /\ request[r].fn = "getSpeechAudio"
  /\ LET snap == Snapshot(speechAudio, cacheKey[r])
     IN /\ IF CacheHit(snap)
           THEN /\ Settle(r, "get", "exists")
                /\ Send(r, Json(200, HitAudio(snap)))
           ELSE /\ Settle(r, "get", "absent")
                /\ UNCHANGED responses
        /\ doc' = [doc EXCEPT ![r] = Some(snap)]
        /\ Count(r, "speech", 1)
        /\ Await(r, "tts")
        /\ UNCHANGED <<cacheKey, cardDescriptions, imageResults, generated>>
  /\ UNCHANGED <<request, store>>
  /\ UNCHANGED client

\* docRef.get() resolves: a hit is answered from the document, a miss awaits
\* the speech call
AudioGetResolved(r) ==
  /\ pc[r] = "get"
  /\ request[r].fn = "getSpeechAudio"
  /\ LET snap == Snapshot(speechAudio, cacheKey[r])
     IN IF CacheHit(snap)
        THEN /\ Settle(r, "get", "exists")
             /\ Send(r, Json(200, HitAudio(snap)))
             /\ Return(r)
             /\ UNCHANGED calls
        ELSE /\ Settle(r, "get", "absent")
             /\ doc' = [doc EXCEPT ![r] = Some(snap)]
             /\ Count(r, "speech", 1)
             /\ Await(r, "tts")
             /\ UNCHANGED <<cacheKey, cardDescriptions, imageResults,
                            generated, responses>>
  /\ UNCHANGED <<request, store>>
  /\ UNCHANGED client

\* the catch block of getSpeechAudio: `error` is logged, a fixed text is sent
AudioCatch(r, error) ==
  /\ Send(r, Text(500, "Internal Server Error while generating speech."))
  /\ Return(r)
  /\ UNCHANGED <<request, calls, store>>

\* docRef.get() rejects
AudioGetRejected(r) ==
  /\ pc[r] = "get"
  /\ request[r].fn = "getSpeechAudio"
  /\ Settle(r, "get", "rejected")
  /\ \E error \in ProviderErrors : AudioCatch(r, error)
  /\ UNCHANGED client

\* mutant: a speech result without audio data is stored as empty audio
TtsResolvedStoresEmptyAudio(r, outcome) ==
  /\ pc[r] = "tts"
  /\ outcome \in TtsOutcomes
  /\ Settle(r, "speech", outcome.kind)
  /\ generated' =
       [generated EXCEPT ![r] = Some([audioContent |-> outcome.data])]
  /\ Count(r, "set", 1)
  /\ Await(r, "set")
  /\ UNCHANGED <<request, cacheKey, doc, cardDescriptions,
                 imageResults, responses, store>>
  /\ UNCHANGED client

\* the speech call resolves: without audio data the handler throws, with it
\* docRef.set() is called
TtsResolved(r, outcome) ==
  /\ pc[r] = "tts"
  /\ outcome \in TtsOutcomes
  /\ Settle(r, "speech", outcome.kind)
  /\ IF outcome.kind # "inlineData" \/ outcome.data = ""
     THEN AudioCatch(r, "No audio data received from Gemini API.")
     ELSE /\ generated' =
               [generated EXCEPT ![r] = Some([audioContent |-> outcome.data])]
          /\ Count(r, "set", 1)
          /\ Await(r, "set")
          /\ UNCHANGED <<request, cacheKey, doc, cardDescriptions,
                         imageResults, responses, store>>
  /\ UNCHANGED client

\* the speech call rejects
TtsRejected(r) ==
  /\ pc[r] = "tts"
  /\ Settle(r, "speech", "rejected")
  /\ \E error \in ProviderErrors : AudioCatch(r, error)
  /\ UNCHANGED client

\* mutant: every audio document is written under the one id "audio"
AudioSetResolvedUnderOneId(r) ==
  /\ pc[r] = "set"
  /\ request[r].fn = "getSpeechAudio"
  /\ Settle(r, "set", "resolved")
  /\ speechAudio' = SetDoc(speechAudio, <<"a", "u", "d", "i", "o">>, generated[r][1])
  /\ Send(r, Json(200, [audioContent |-> generated[r][1].audioContent]))
  /\ Return(r)
  /\ UNCHANGED <<request, calls, flashcardDecks>>
  /\ UNCHANGED client

\* docRef.set() resolves: the document is stored, then the audio is sent
AudioSetResolved(r) ==
  /\ pc[r] = "set"
  /\ request[r].fn = "getSpeechAudio"
  /\ Settle(r, "set", "resolved")
  /\ speechAudio' = SetDoc(speechAudio, cacheKey[r], generated[r][1])
  /\ Send(r, Json(200, [audioContent |-> generated[r][1].audioContent]))
  /\ Return(r)
  /\ UNCHANGED <<request, calls, flashcardDecks>>
  /\ UNCHANGED client

\* docRef.set() rejects
AudioSetRejected(r) ==
  /\ pc[r] = "set"
  /\ request[r].fn = "getSpeechAudio"
  /\ Settle(r, "set", "rejected")
  /\ \E error \in ProviderErrors : AudioCatch(r, error)
  /\ UNCHANGED client

(***************************************************************************)
(* Specifications.                                                         *)
(***************************************************************************)
\* a suspended invocation resumes: one of its awaited promises settles; the
\* text call returns at most `max` card descriptions
DeckStep(r, max) ==
  \/ DeckGetResolved(r)
  \/ DeckGetRejected(r)
  \/ \E cards \in TextResultsUpTo(max) : TextResolved(r, cards)
  \/ TextRejected(r)
  \/ \E i \in 1..max : \E o \in ImageOutcomes : ImageSettled(r, i, o)
  \/ AllSettled(r)
  \/ DeckSetResolved(r)
  \/ DeckSetRejected(r)

AudioStep(r) ==
  \/ AudioGetResolved(r)
  \/ AudioGetRejected(r)
  \/ \E o \in TtsOutcomes : TtsResolved(r, o)
  \/ TtsRejected(r)
  \/ AudioSetResolved(r)
  \/ AudioSetRejected(r)

Step(r, max) == DeckStep(r, max) \/ AudioStep(r)

\* requests arrive at any time and run concurrently
Next ==
  \E r \in Reqs :
    \/ \E q \in DeckRequests : DeckReceive(r, q)
    \/ \E q \in AudioRequests : AudioReceive(r, q)
    \/ Step(r, MaxRaceCards)

Spec == Init /\ [][Next]_vars

\* no invocation is between its arrival and its response
NoneInFlight == \A r \in Reqs : pc[r] \in {"idle", "done"}

\* requests do not overlap: one arrives only when none is in flight
NextSeq ==
  \E r \in Reqs :
    \/ \E q \in DeckRequests : NoneInFlight /\ DeckReceive(r, q)
    \/ \E q \in AudioRequests : NoneInFlight /\ AudioReceive(r, q)
    \/ Step(r, MaxCards)

SpecSeq == Init /\ [][NextSeq]_vars

\* one request of each outcome of the method check and the validation
LiveDeckRequests ==
  {q \in DeckRequests : q.body.targetLang \in {Some(French), Undefined}}
LiveAudioRequests ==
  {q \in AudioRequests : q.body.text \in {Some(Salut), Undefined}}

\* overlapping requests whose awaited store and provider calls all settle:
\* a suspended invocation is eventually resumed
NextLive ==
  \E r \in Reqs :
    \/ \E q \in LiveDeckRequests : DeckReceive(r, q)
    \/ \E q \in LiveAudioRequests : AudioReceive(r, q)
    \/ Step(r, MaxRaceCards)

SpecLive ==
  Init /\ [][NextLive]_vars /\ \A r \in Reqs : WF_vars(Step(r, MaxRaceCards))

(***************************************************************************)
(* Requests that probe the key derivations and the validation: language    *)
(* names that differ in case, in whitespace and in where an underscore     *)
(* falls, a difficulty outside the Difficulty type, texts that differ only *)
(* in characters the audio key drops or cuts, a text that is a number, and *)
(* requests of another method without the required fields.                 *)
(***************************************************************************)
french == <<"f", "r", "e", "n", "c", "h">>
OldNorseSpaced == <<"O", "l", "d", " ", "\t", " ", "N", "o", "r", "s", "e">>
Old == <<"O", "l", "d">>
NorseUnderscoreFrench ==
  <<"N", "o", "r", "s", "e", "_", "F", "r", "e", "n", "c", "h">>
Easy == <<"E", "a", "s", "y">>
SalutQuestion == <<"S", "a", "l", "u", "t", "?">>
Repeat(c, n) == [i \in 1..n |-> c]
\* two texts longer than the cut, equal up to it once sanitised
LongTextA == Repeat("a", AudioKeyTextLen - 1) \o <<"!", "x">>
LongTextB == Repeat("a", AudioKeyTextLen - 1) \o <<"?", "y", "z">>

InputDeckBodies ==
  {DeckBody(Some(English), Some(French), Some(Beginner)),
   DeckBody(Some(English), Some(french), Some(Beginner)),
   DeckBody(Some(OldNorseSpaced), Some(French), Some(Beginner)),
   DeckBody(Some(Old), Some(NorseUnderscoreFrench), Some(Beginner)),
   DeckBody(Some(English), Some(French), Some(Easy))}
InputDeckRequests ==
  [fn : {"getFlashcardDeck"}, method : {"POST"}, body : InputDeckBodies]
    \cup [fn : {"getFlashcardDeck"}, method : {"GET"},
          body : {DeckBody(Some(English), Some(French), Undefined)}]

InputAudioBodies ==
  {AudioBody(Some(Salut)), AudioBody(Some(SalutQuestion)),
   AudioBody(Some(LongTextA)), AudioBody(Some(LongTextB)),
   AudioBody(Some(Number42))}
InputAudioRequests ==
  [fn : {"getSpeechAudio"}, method : {"POST"}, body : InputAudioBodies]
    \cup [fn : {"getSpeechAudio"}, method : {"PUT"},
          body : {AudioBody(Undefined)}]

\* the probing deck requests, served one after the other
NextDeckInputs ==
  \E r \in Reqs :
    \/ \E q \in InputDeckRequests : NoneInFlight /\ DeckReceive(r, q)
    \/ DeckStep(r, MaxRaceCards)

SpecDeckInputs == Init /\ [][NextDeckInputs]_vars

\* the probing audio requests, served one after the other
NextAudioInputs ==
  \E r \in Reqs :
    \/ \E q \in InputAudioRequests : NoneInFlight /\ AudioReceive(r, q)
    \/ AudioStep(r)

SpecAudioInputs == Init /\ [][NextAudioInputs]_vars

(***************************************************************************)
(* Vocabulary of the properties.                                           *)
(***************************************************************************)
IsDeck(r) == request[r].fn = "getFlashcardDeck" /\ request[r].method = "POST"
IsAudio(r) == request[r].fn = "getSpeechAudio" /\ request[r].method = "POST"

\* a field of the body is a non-empty string
Present(x) == x # Undefined /\ x[1] # EmptyString

\* a POST deck request with its three fields, a POST audio request with text
ValidDeck(r) ==
  /\ IsDeck(r)
  /\ Present(request[r].body.sourceLang)
  /\ Present(request[r].body.targetLang)
  /\ Present(request[r].body.difficulty)
ValidAudio(r) == IsAudio(r) /\ Present(request[r].body.text)

\* the (sourceLang, targetLang, difficulty) of a deck request
Triple(r) ==
  <<request[r].body.sourceLang, request[r].body.targetLang,
    request[r].body.difficulty>>

\* the document id a valid request is served under
DeckKeyOf(r) ==
  deriveDeckKey(request[r].body.sourceLang[1], request[r].body.targetLang[1],
                request[r].body.difficulty[1])
AudioKeyOf(r) == deriveAudioKey(request[r].body.text[1])

\* invocation r has returned after sending exactly one response, of this status
Responded(r, status) ==
  pc[r] = "done" /\ Len(responses[r]) = 1 /\ responses[r][1].status = status

NoProviderCall(r) ==
  calls[r].text = 0 /\ calls[r].image = 0 /\ calls[r].speech = 0

(***************************************************************************)
(* C1.  Cache-aside correctness for decks, requests not overlapping        *)
(* (SpecSeq).  A deck request whose lookup finds no document under its     *)
(* key makes exactly one text call; once the text call has returned N card *)
(* descriptions it has made exactly N image calls, and once the fan-out    *)
(* has settled exactly one set() under that key, which a 200 response      *)
(* shows stored.  Every later request for the same (sourceLang,            *)
(* targetLang, difficulty) makes no provider call and no store write, and  *)
(* its lookup, unless the read itself fails, is a hit answered with the    *)
(* stored cards.                                                           *)
(***************************************************************************)
CacheAsideDeck ==
  \A r \in Reqs :
    ValidDeck(r) =>
      /\ calls[r].get <= 1 /\ calls[r].text <= 1 /\ calls[r].set <= 1
      /\ settled[r].get = "absent" =>
           /\ calls[r].text = 1
           /\ pc[r] = "text" => calls[r].image = 0 /\ calls[r].set = 0
           /\ pc[r] = "images" =>
                /\ calls[r].image = Len(cardDescriptions[r][1])
                /\ calls[r].set = 0
           /\ pc[r] = "set" =>
                /\ calls[r].image = Len(generated[r][1].cards)
                /\ calls[r].set = 1
           /\ Responded(r, 200) =>
                /\ calls[r].image = Len(responses[r][1].json)
                /\ calls[r].set = 1
                /\ DeckKeyOf(r) \in DOMAIN flashcardDecks
                /\ flashcardDecks[DeckKeyOf(r)].cards = responses[r][1].json
      /\ \A l \in Reqs :
           (l > r /\ ValidDeck(l) /\ Triple(l) = Triple(r)
              /\ Responded(r, 200)) =>
             /\ NoProviderCall(l) /\ calls[l].set = 0
             /\ settled[l].get \in {"none", "exists", "rejected"}
             /\ settled[l].get = "exists" =>
                  responses[l] = <<Json(200, responses[r][1].json)>>

\* a miss with two cards was served, and a later request for the same triple hit
CacheAsideDeckWitness ==
  \E r \in Reqs : \E l \in Reqs :
    /\ l > r /\ ValidDeck(r) /\ ValidDeck(l) /\ Triple(l) = Triple(r)
    /\ settled[r].get = "absent" /\ Responded(r, 200)
    /\ calls[r].image = 2
    /\ settled[l].get = "exists" /\ Responded(l, 200)

(***************************************************************************)
(* C2.  Fan-out resilience (SpecSeq).  While the image calls of a deck     *)
(* are in flight nothing but their settling happens to the invocation,     *)
(* whatever they end in: a settled result is kept and the handler goes on  *)
(* only to assembly, when none is pending.  The assembled deck has as many *)
(* records as card descriptions; record i carries description i's word,    *)
(* translation and sentence and its type as the handler normalises it      *)
(* (lower-cased); its image is "no-image" where image call i failed and    *)
(* the image payload of call i where it did not.                           *)
(***************************************************************************)
FanOutResilience ==
  [][\A r \in Reqs :
       pc[r] = "images" =>
         /\ pc'[r] \in {"images", "set"}
         /\ pc'[r] = "images" =>
              \A i \in 1..Len(imageResults[r]) :
                imageResults[r][i] # Pending =>
                  imageResults'[r][i] = imageResults[r][i]
         /\ pc'[r] = "set" =>
              LET described == cardDescriptions[r][1]
                  results == imageResults[r]
                  deck == generated'[r][1].cards
              IN /\ Len(deck) = Len(described)
                 /\ \A i \in 1..Len(described) :
                      /\ results[i] # Pending
                      /\ deck[i].word = described[i].word
                      /\ deck[i].translation = described[i].translation
                      /\ deck[i].sentence = described[i].sentence
                      /\ deck[i].type = toLowerCase(described[i].type)
                      /\ results[i].failed => deck[i].image = "no-image"
                      /\ ~results[i].failed =>
                           /\ deck[i].image = results[i].value
                           /\ deck[i].image # "no-image"]_vars

\* a deck of two cards was assembled with the first image failed, the second not
FanOutResilienceWitness ==
  \E r \in Reqs :
    /\ pc[r] = "set" /\ IsDeck(r)
    /\ Len(generated[r][1].cards) = 2
    /\ generated[r][1].cards[1].image = "no-image"
    /\ generated[r][1].cards[2].image # "no-image"
    /\ generated[r][1].cards[1].word = CardPool[1].word
    /\ generated[r][1].cards[2].word = CardPool[2].word

(***************************************************************************)
(* C3.  Fatal propagation.  A deck request whose text call failed has      *)
(* returned with the single response 500, has launched no image call and   *)
(* called no set(); unless another request wrote it, there is no document  *)
(* under its key.                                                          *)
(***************************************************************************)
TextFailureIsFatal ==
  \A r \in Reqs :
    settled[r].text = "rejected" =>
      /\ Responded(r, 500)
      /\ calls[r].image = 0
      /\ calls[r].set = 0 /\ settled[r].set = "none"
      /\ (\A o \in Reqs :
            (o # r /\ ValidDeck(o) /\ DeckKeyOf(o) = DeckKeyOf(r)) =>
              settled[o].set # "resolved")
           => DeckKeyOf(r) \notin DOMAIN flashcardDecks

\* a text call failed and the key is absent
TextFailureIsFatalWitness ==
  \E r \in Reqs :
    /\ settled[r].text = "rejected" /\ Responded(r, 500)
    /\ DeckKeyOf(r) \notin DOMAIN flashcardDecks

(***************************************************************************)
(* C4.  Validation.  A POST deck request without sourceLang, targetLang or *)
(* difficulty, and a POST audio request without text, has been answered    *)
(* with the single response 400 and has called neither the store nor the   *)
(* provider.                                                               *)
(***************************************************************************)
MissingFieldIs400 ==
  \A r \in Reqs :
    (\/ /\ IsDeck(r)
        /\ \/ request[r].body.sourceLang = Undefined
           \/ request[r].body.targetLang = Undefined
           \/ request[r].body.difficulty = Undefined
     \/ IsAudio(r) /\ request[r].body.text = Undefined) =>
      /\ Responded(r, 400)
      /\ calls[r] = NoCalls
      /\ settled[r] = NoneSettled

\* a deck request without difficulty and an audio request without text were
\* answered
MissingFieldIs400Witness ==
  /\ \E r \in Reqs :
       IsDeck(r) /\ request[r].body.difficulty = Undefined /\ Responded(r, 400)
  /\ \E r \in Reqs :
       IsAudio(r) /\ request[r].body.text = Undefined /\ Responded(r, 400)

(***************************************************************************)
(* C5.  Write failure does not fail the request: an invocation whose       *)
(* set() was rejected has answered 200.                                    *)
(***************************************************************************)
WriteFailureStillServes ==
  \A r \in Reqs :
    settled[r].set = "rejected" =>
      Len(responses[r]) = 1 /\ responses[r][1].status = 200

(***************************************************************************)
(* C6.  Read failure is treated as a miss: an invocation whose get() was   *)
(* rejected has gone on to generation (the text call, or the speech call). *)
(***************************************************************************)
ReadFailureIsAMiss ==
  \A r \in Reqs :
    settled[r].get = "rejected" => calls[r].text = 1 \/ calls[r].speech = 1

\* the set() of invocation r lands in this step
Lands(r) == settled[r].set = "none" /\ settled'[r].set = "resolved"

\* the collection invocation r works on
CollectionOf(r) == IF IsDeck(r) THEN flashcardDecks ELSE speechAudio

(***************************************************************************)
(* C7.  Write-once entries, as claimed: no step removes a document or      *)
(* changes it, and no set() lands on a key that has a document.            *)
(***************************************************************************)
WriteOnceEntries ==
  [][/\ \A id \in DOMAIN flashcardDecks :
          id \in DOMAIN flashcardDecks' /\ flashcardDecks'[id] = flashcardDecks[id]
     /\ \A id \in DOMAIN speechAudio :
          id \in DOMAIN speechAudio' /\ speechAudio'[id] = speechAudio[id]
     /\ \A r \in Reqs : Lands(r) => cacheKey[r] \notin DOMAIN CollectionOf(r)]_vars

(***************************************************************************)
(* C7, amended.  No step removes a document.  A set() lands on a key that  *)
(* has a document only from an invocation whose own lookup had found the   *)
(* key absent (the race of overlapping misses); a document changes only by *)
(* such a set(); an invocation that finds the document never writes.       *)
(***************************************************************************)
WriteOnceButForRacingMisses ==
  [][/\ \A id \in DOMAIN flashcardDecks :
          /\ id \in DOMAIN flashcardDecks'
          /\ flashcardDecks'[id] # flashcardDecks[id] =>
               \E r \in Reqs : Lands(r) /\ IsDeck(r) /\ cacheKey[r] = id
     /\ \A id \in DOMAIN speechAudio :
          /\ id \in DOMAIN speechAudio'
          /\ speechAudio'[id] # speechAudio[id] =>
               \E r \in Reqs : Lands(r) /\ IsAudio(r) /\ cacheKey[r] = id
     /\ \A r \in Reqs :
          /\ Lands(r) => settled[r].get = "absent"
          /\ settled[r].get = "exists" => settled'[r].set = "none"]_vars

\* two overlapping misses have both written one deck key
WriteOnceButForRacingMissesWitness ==
  \E r \in Reqs : \E o \in Reqs :
    /\ r # o /\ ValidDeck(r) /\ ValidDeck(o) /\ DeckKeyOf(r) = DeckKeyOf(o)
    /\ settled[r].get = "absent" /\ settled[o].get = "absent"
    /\ settled[r].set = "resolved" /\ settled[o].set = "resolved"

(***************************************************************************)
(* C8.  Accepted race without corruption.  Every stored document equals,   *)
(* as a whole, the payload one request generated, stored and answered      *)
(* with; and a set() that lands leaves under its key exactly the payload   *)
(* of the invocation it comes from, so after two racing writes the key     *)
(* holds the last writer's payload.                                        *)
(***************************************************************************)
StoredByOneRequest ==
  /\ \A id \in DOMAIN flashcardDecks :
       \E r \in Reqs :
         /\ ValidDeck(r) /\ DeckKeyOf(r) = id
         /\ settled[r].set = "resolved" /\ Responded(r, 200)
         /\ flashcardDecks[id] = [cards |-> responses[r][1].json]
  /\ \A id \in DOMAIN speechAudio :
       \E r \in Reqs :
         /\ ValidAudio(r) /\ AudioKeyOf(r) = id
         /\ settled[r].set = "resolved" /\ Responded(r, 200)
         /\ speechAudio[id] = responses[r][1].json

LastWriterWins ==
  \A r \in Reqs :
    Lands(r) =>
      /\ IsDeck(r) => flashcardDecks'[cacheKey[r]] = generated[r][1]
      /\ IsAudio(r) => speechAudio'[cacheKey[r]] = generated[r][1]

RaceWithoutCorruption == [](StoredByOneRequest) /\ [][LastWriterWins]_vars

\* two overlapping misses of one deck key have both written, different decks
RaceWithoutCorruptionWitness ==
  \E r \in Reqs : \E o \in Reqs :
    /\ r # o /\ ValidDeck(r) /\ ValidDeck(o) /\ DeckKeyOf(r) = DeckKeyOf(o)
    /\ settled[r].set = "resolved" /\ settled[o].set = "resolved"
    /\ responses[r][1].json # responses[o][1].json
    /\ flashcardDecks[DeckKeyOf(r)].cards = responses[o][1].json

\* an invocation that found key `id` absent has not returned yet
RacingMissInFlight(id) ==
  \E r \in Reqs : pc[r] # "done" /\ settled[r].get = "absent" /\ cacheKey[r] = id

(***************************************************************************)
(* C9.  Convergence for readers, as claimed: once a document is stored     *)
(* under a key, what a lookup of the key is answered with never changes,   *)
(* whatever is still in flight.                                            *)
(***************************************************************************)
ReadersConverge ==
  [][/\ \A id \in DOMAIN flashcardDecks :
          HitCards(Snapshot(flashcardDecks', id))
            = HitCards(Snapshot(flashcardDecks, id))
     /\ \A id \in DOMAIN speechAudio :
          HitAudio(Snapshot(speechAudio', id))
            = HitAudio(Snapshot(speechAudio, id))]_vars

(***************************************************************************)
(* C9, amended.  Once a document is stored under a key and no invocation   *)
(* that had found the key absent is still in flight, what a lookup of the  *)
(* key is answered with never changes.                                     *)
(***************************************************************************)
ReadersConvergeAfterRacers ==
  [][/\ \A id \in DOMAIN flashcardDecks :
          ~RacingMissInFlight(id) =>
            HitCards(Snapshot(flashcardDecks', id))
              = HitCards(Snapshot(flashcardDecks, id))
     /\ \A id \in DOMAIN speechAudio :
          ~RacingMissInFlight(id) =>
            HitAudio(Snapshot(speechAudio', id))
              = HitAudio(Snapshot(speechAudio, id))]_vars

\* a reader was answered from a document no racing miss can still replace
ReadersConvergeAfterRacersWitness ==
  \E r \in Reqs :
    /\ ValidDeck(r) /\ settled[r].get = "exists" /\ Responded(r, 200)
    /\ DeckKeyOf(r) \in DOMAIN flashcardDecks
    /\ ~RacingMissInFlight(DeckKeyOf(r))
    /\ responses[r][1].json = flashcardDecks[DeckKeyOf(r)].cards

(***************************************************************************)
(* C10.  Hit path.  When get() resolves and the collection holds a         *)
(* document under the derived key, the invocation answers 200 with exactly *)
(* the stored cards (or { audioContent }) and returns; it has made and     *)
(* makes no provider call and no set(), and the store is unchanged.        *)
(***************************************************************************)
HitPath ==
  [][\A r \in Reqs :
       (/\ pc[r] = "get"
        /\ settled'[r].get \in {"exists", "absent"}
        /\ cacheKey[r] \in DOMAIN CollectionOf(r)) =>
         /\ IsDeck(r) =>
              responses'[r] = <<Json(200, flashcardDecks[cacheKey[r]].cards)>>
         /\ IsAudio(r) =>
              responses'[r] =
                <<Json(200, [audioContent |->
                               speechAudio[cacheKey[r]].audioContent])>>
         /\ pc'[r] = "done"
         /\ calls'[r] = calls[r]
         /\ NoProviderCall(r) /\ calls[r].set = 0
         /\ flashcardDecks' = flashcardDecks /\ speechAudio' = speechAudio]_vars

\* a deck request was answered from the store, with the stored cards
HitPathWitness ==
  \E r \in Reqs :
    /\ ValidDeck(r) /\ settled[r].get = "exists" /\ calls[r].set = 0
    /\ responses[r] = <<Json(200, flashcardDecks[DeckKeyOf(r)].cards)>>
    /\ flashcardDecks[DeckKeyOf(r)].cards # <<>>

(***************************************************************************)
(* C11.  Miss/hit payload identity, requests not overlapping (SpecSeq).    *)
(* A deck request that ran the miss path to its 200 was sent exactly the   *)
(* cards stored under its key, card i of them being the i-th card          *)
(* description of the provider's text result; and every request answered   *)
(* from the store under that key was sent that same sequence of cards.     *)
(***************************************************************************)
MissHitPayloadIdentity ==
  \A r \in Reqs :
    (ValidDeck(r) /\ settled[r].set = "resolved") =>
      /\ DeckKeyOf(r) \in DOMAIN flashcardDecks
      /\ responses[r] = <<Json(200, flashcardDecks[DeckKeyOf(r)].cards)>>
      /\ \A i \in 1..Len(responses[r][1].json) :
           /\ responses[r][1].json[i].word = CardPool[i].word
           /\ responses[r][1].json[i].translation = CardPool[i].translation
           /\ responses[r][1].json[i].sentence = CardPool[i].sentence
      /\ \A o \in Reqs :
           (ValidDeck(o) /\ DeckKeyOf(o) = DeckKeyOf(r)
              /\ settled[o].get = "exists") =>
             responses[o] = responses[r]

\* a deck of two cards was generated and sent, and sent again on a hit
MissHitPayloadIdentityWitness ==
  \E r \in Reqs : \E o \in Reqs :
    /\ ValidDeck(r) /\ settled[r].set = "resolved"
    /\ Len(responses[r][1].json) = MaxCards
    /\ ValidDeck(o) /\ DeckKeyOf(o) = DeckKeyOf(r)
    /\ settled[o].get = "exists" /\ Responded(o, 200)

\* a name without whitespace and without an underscore
PlainName(x) == \A i \in 1..Len(x) : x[i] \notin Whitespace \cup {"_"}
PlainTriple(r) ==
  /\ PlainName(request[r].body.sourceLang[1])
  /\ PlainName(request[r].body.targetLang[1])
  /\ PlainName(request[r].body.difficulty[1])

\* request r is received in this step
Received(r) == request[r] = NoRequest /\ request'[r] # NoRequest

(***************************************************************************)
(* C12.  Deck key determinism and distinctness, as claimed: when a deck    *)
(* request passes validation its cacheKey is the key derived from its      *)
(* three fields; it is the key of every earlier deck request with the same *)
(* (sourceLang, targetLang, difficulty), and differs from the key of every *)
(* earlier deck request that differs in any of the three.                  *)
(***************************************************************************)
DeckKeysDistinct ==
  [][\A o \in Reqs :
       (Received(o) /\ ValidDeck(o)') =>
         /\ cacheKey'[o] = DeckKeyOf(o)'
         /\ \A r \in Reqs :
              (r # o /\ ValidDeck(r)) =>
                /\ Triple(r) = Triple(o)' => DeckKeyOf(r) = cacheKey'[o]
                /\ Triple(r) # Triple(o)' => DeckKeyOf(r) # cacheKey'[o]]_vars

(***************************************************************************)
(* C12, amended.  When a deck request passes validation its cacheKey is    *)
(* the key derived from its three fields; it is the key of every earlier   *)
(* deck request with the same three fields, and differs from the key of    *)
(* every earlier deck request that differs in any of the three when no     *)
(* field of either contains whitespace or an underscore.  A request once   *)
(* received never changes.                                                 *)
(***************************************************************************)
DeckKeysDistinctForPlainNames ==
  [][\A o \in Reqs :
       /\ request[o] # NoRequest => request'[o] = request[o]
       /\ (Received(o) /\ ValidDeck(o)') =>
            /\ cacheKey'[o] = DeckKeyOf(o)'
            /\ \A r \in Reqs :
                 (r # o /\ ValidDeck(r)) =>
                   /\ Triple(r) = Triple(o)' => DeckKeyOf(r) = cacheKey'[o]
                   /\ (/\ PlainTriple(r) /\ PlainTriple(o)'
                       /\ Triple(r) # Triple(o)') =>
                        DeckKeyOf(r) # cacheKey'[o]]_vars

\* two requests that differ in the difficulty only, and are in use under
\* different keys
DeckKeysDistinctForPlainNamesWitness ==
  \E r \in Reqs : \E o \in Reqs :
    /\ ValidDeck(r) /\ ValidDeck(o) /\ PlainTriple(r) /\ PlainTriple(o)
    /\ request[r].body.sourceLang = request[o].body.sourceLang
    /\ request[r].body.targetLang = request[o].body.targetLang
    /\ request[r].body.difficulty # request[o].body.difficulty
    /\ pc[o] = "get" /\ cacheKey[o] # DeckKeyOf(r)

\* a POST audio request whose text is a non-empty string
StringAudio(r) == ValidAudio(r) /\ IsString(request[r].body.text[1])
TextOf(r) == request[r].body.text[1]

(***************************************************************************)
(* C13.  Audio key collision, requests not overlapping (SpecAudioInputs).  *)
(* The key an audio request gets when it passes validation is "audio_"     *)
(* followed by the first 100 characters of its text, each character        *)
(* outside [A-Za-z0-9] replaced by "_".  So when a request has cached its  *)
(* audio and the lookup of a request with a different text of the same key *)
(* resolves, that request is a hit: it returns with the first text's audio *)
(* as its 200 and has made no provider call.                               *)
(***************************************************************************)
AudioKeyCollision ==
  [][\A o \in Reqs :
       /\ (Received(o) /\ StringAudio(o)') =>
            LET k == cacheKey'[o]
                t == TextOf(o)'
            IN /\ Len(k) =
                    6 + (IF Len(t) < AudioKeyTextLen
                         THEN Len(t) ELSE AudioKeyTextLen)
               /\ SubSeq(k, 1, 6) = <<"a", "u", "d", "i", "o", "_">>
               /\ \A i \in 1..(Len(k) - 6) :
                    k[6 + i] =
                      IF t[i] \in Letters \cup Digits THEN t[i] ELSE "_"
               /\ k = AudioKeyOf(o)'
       /\ (/\ settled[o].get = "none"
           /\ settled'[o].get \in {"exists", "absent"}
           /\ StringAudio(o)) =>
            \A r \in Reqs :
              (/\ r # o
               /\ settled[r].set = "resolved"
               /\ StringAudio(r)
               /\ TextOf(r) # TextOf(o)
               /\ AudioKeyOf(r) = cacheKey[o]) =>
                /\ settled'[o].get = "exists"
                /\ pc'[o] = "done"
                /\ responses'[o] = responses[r]
                /\ responses'[o][1].status = 200
                /\ calls'[o].speech = 0 /\ calls'[o].set = 0]_vars

\* a text longer than the cut was cached, and a different text that agrees
\* with it up to the cut was answered with the same audio
AudioKeyCollisionWitness ==
  \E r \in Reqs : \E o \in Reqs :
    /\ StringAudio(r) /\ StringAudio(o) /\ r < o
    /\ Len(TextOf(r)) > AudioKeyTextLen
    /\ TextOf(o) # TextOf(r)
    /\ settled[r].set = "resolved" /\ settled[o].get = "exists"
    /\ responses[o] = responses[r] /\ NoProviderCall(o)

\* the members of the type Difficulty
Intermediate == <<"I", "n", "t", "e", "r", "m", "e", "d", "i", "a", "t", "e">>
Expert == <<"E", "x", "p", "e", "r", "t">>
Difficulties == {Beginner, Intermediate, Expert}

\* a POST request whose required fields are present, one of them malformed:
\* a difficulty outside Difficulty, or a text that is not a string
Malformed(r) ==
  \/ ValidDeck(r) /\ request[r].body.difficulty[1] \notin Difficulties
  \/ ValidAudio(r) /\ ~IsString(request[r].body.text[1])

(***************************************************************************)
(* C14.  Malformed fields are client errors: a request whose required      *)
(* fields are present but malformed has called neither the store nor the   *)
(* provider, and once it has returned it was answered with one response of *)
(* a 4xx status.                                                           *)
(***************************************************************************)
MalformedIsClientError ==
  \A r \in Reqs :
    Malformed(r) =>
      /\ calls[r] = NoCalls
      /\ pc[r] = "done" =>
           /\ Len(responses[r]) = 1
           /\ responses[r][1].status \in 400..499

(***************************************************************************)
(* C15.  No retry.  An invocation makes at most one text call and at most  *)
(* one speech call, whatever their outcome; image calls are issued in one  *)
(* step only, the one in which the text result arrives, one per card       *)
(* description of that result.                                             *)
(***************************************************************************)
AtMostOneAttempt ==
  \A r \in Reqs :
    /\ calls[r].text <= 1
    /\ calls[r].speech <= 1
    /\ calls[r].text = 0 \/ calls[r].speech = 0
    /\ pc[r] = "images" => calls[r].image = Len(cardDescriptions[r][1])

ImageCallsIssuedOnce ==
  \A r \in Reqs :
    calls'[r].image # calls[r].image =>
      /\ pc[r] = "text" /\ calls[r].image = 0
      /\ calls'[r].image = Len(cardDescriptions'[r][1])

NoRetry == [](AtMostOneAttempt) /\ [][ImageCallsIssuedOnce]_vars

\* one request's text call failed, another's image call failed, and each
\* has returned after its single attempt
NoRetryWitness ==
  /\ \E r \in Reqs :
       pc[r] = "done" /\ settled[r].text = "rejected" /\ calls[r].text = 1
  /\ \E r \in Reqs :
       /\ pc[r] = "done" /\ calls[r].image = 1 /\ Responded(r, 200)
       /\ responses[r][1].json[1].image = "no-image"

MissAnswered(r) ==
  /\ settled[r].get = "absent"
  /\ \E i \in 1..Len(responses[r]) : responses[r][i].status = 200

(***************************************************************************)
(* C17.  Persist before respond.  An invocation that has sent a 200 on its *)
(* miss path had its set() resolved before, and there is a document under  *)
(* its key; in the step in which the 200 is sent, the document under the   *)
(* key is the payload sent.                                                *)
(***************************************************************************)
PersistedWhenAnswered ==
  \A r \in Reqs :
    MissAnswered(r) =>
      /\ settled[r].set = "resolved"
      /\ ValidDeck(r) => DeckKeyOf(r) \in DOMAIN flashcardDecks
      /\ ValidAudio(r) => AudioKeyOf(r) \in DOMAIN speechAudio

AnswerIsWhatIsStored ==
  \A r \in Reqs :
    (~MissAnswered(r) /\ MissAnswered(r)') =>
      /\ ValidDeck(r) =>
           responses'[r] = <<Json(200, flashcardDecks'[DeckKeyOf(r)].cards)>>
      /\ ValidAudio(r) =>
           responses'[r] = <<Json(200, speechAudio'[AudioKeyOf(r)])>>

PersistBeforeRespond ==
  [](PersistedWhenAnswered) /\ [][AnswerIsWhatIsStored]_vars

\* a deck miss and an audio miss were answered
PersistBeforeRespondWitness ==
  /\ \E r \in Reqs :
       /\ ValidDeck(r) /\ MissAnswered(r)
       /\ responses[r][1].json # <<>>
       /\ DeckKeyOf(r) \in DOMAIN flashcardDecks
  /\ \E r \in Reqs :
       ValidAudio(r) /\ MissAnswered(r) /\ AudioKeyOf(r) \in DOMAIN speechAudio

\* the fixed texts of the two catch blocks
GenericDeckError == "Internal Server Error while generating flashcards."
GenericAudioError == "Internal Server Error while generating speech."

(***************************************************************************)
(* C18.  Generic error bodies.  Every 500 response of getFlashcardDeck is  *)
(* the handler's fixed text and every 500 response of getSpeechAudio is    *)
(* that handler's fixed text, whatever error the provider or the store     *)
(* failed with.                                                            *)
(***************************************************************************)
GenericErrorBodies ==
  \A r \in Reqs :
    \A i \in 1..Len(responses[r]) :
      responses[r][i].status = 500 =>
        /\ request[r].fn = "getFlashcardDeck" =>
             responses[r][i] = Text(500, GenericDeckError)
        /\ request[r].fn = "getSpeechAudio" =>
             responses[r][i] = Text(500, GenericAudioError)
        /\ responses[r][i].send \notin ProviderErrors

\* a deck request failed on its provider and an audio request on its store
GenericErrorBodiesWitness ==
  /\ \E r \in Reqs :
       /\ IsDeck(r) /\ settled[r].text = "rejected"
       /\ responses[r] = <<Text(500, GenericDeckError)>>
  /\ \E r \in Reqs :
       /\ IsAudio(r) /\ settled[r].get = "rejected"
       /\ responses[r] = <<Text(500, GenericAudioError)>>

\* an image call of invocation r is still in flight
ImageInFlight(r) ==
  pc[r] = "images" /\ \E i \in 1..Len(imageResults[r]) : imageResults[r][i] = Pending

(***************************************************************************)
(* C19.  Fan-in barrier.  In the step in which the text result arrives     *)
(* all N image calls are launched and none has been awaited; while an      *)
(* image call of the invocation is in flight, also after another one has   *)
(* failed, the invocation assembles no deck, calls no set(), sends no      *)
(* response and stays at the barrier.                                      *)
(***************************************************************************)
FanInBarrier ==
  [][\A r \in Reqs :
       /\ (pc[r] = "text" /\ pc'[r] = "images") =>
            /\ calls'[r].image = Len(cardDescriptions'[r][1])
            /\ Len(imageResults'[r]) = Len(cardDescriptions'[r][1])
            /\ \A i \in 1..Len(imageResults'[r]) : imageResults'[r][i] = Pending
       /\ ImageInFlight(r) =>
            /\ pc'[r] = "images"
            /\ generated'[r] = <<>>
            /\ calls'[r].set = 0
            /\ responses'[r] = <<>>
            /\ cardDescriptions'[r] = cardDescriptions[r]]_vars

\* of the image calls the last has failed and the first is still in flight:
\* the invocation waits
FanInBarrierWitness ==
  \E r \in Reqs :
    /\ pc[r] = "images" /\ Len(imageResults[r]) = MaxCards
    /\ imageResults[r][MaxCards].failed
    /\ imageResults[r][1] = Pending
    /\ generated[r] = <<>> /\ responses[r] = <<>> /\ calls[r].set = 0

\* "deck", the two language names and the difficulty of a valid deck
\* request, joined by underscores
Joined(r) ==
  <<"d", "e", "c", "k">> \o <<"_">> \o request[r].body.sourceLang[1]
    \o <<"_">> \o request[r].body.targetLang[1]
    \o <<"_">> \o request[r].body.difficulty[1]

\* the positions of a string that begin a whitespace run or are no whitespace
RunStarts(j) ==
  {i \in 1..Len(j) :
     \/ j[i] \notin Whitespace
     \/ IF i = 1 THEN TRUE ELSE j[i - 1] \notin Whitespace}

(***************************************************************************)
(* C20.  Deck key formula.  The key a deck request gets when it passes     *)
(* validation, and keeps until it returns, is                              *)
(* "deck", source language name, target language name and difficulty       *)
(* joined by underscores, each run of whitespace of the joined string      *)
(* standing in the key as one underscore and every other character as      *)
(* itself, in order.  For (English, French, Beginner) the key is           *)
(* deck_English_French_Beginner, and a request for "french" is served      *)
(* under another key than one for "French".                                *)
(***************************************************************************)
DeckKeyFormula ==
  [][\A r \in Reqs :
       /\ (ValidDeck(r) /\ pc'[r] # "done") => cacheKey'[r] = cacheKey[r]
       /\ (Received(r) /\ ValidDeck(r)') =>
            LET j == Joined(r)'
                k == cacheKey'[r]
            IN /\ Len(k) = Cardinality(RunStarts(j))
               /\ \A i \in RunStarts(j) :
                    k[Cardinality({p \in RunStarts(j) : p <= i})] =
                      IF j[i] \in Whitespace THEN "_" ELSE j[i]
               /\ Triple(r)' = <<Some(English), Some(French), Some(Beginner)>> =>
                    k = <<"d", "e", "c", "k", "_", "E", "n", "g", "l", "i",
                          "s", "h", "_", "F", "r", "e", "n", "c", "h", "_",
                          "B", "e", "g", "i", "n", "n", "e", "r">>
               /\ Triple(r)' = <<Some(English), Some(french), Some(Beginner)>> =>
                    /\ k # deriveDeckKey(English, French, Beginner)
                    /\ k[14] = "f"]_vars

\* a request whose source language holds a run of three whitespace
\* characters is in flight under a key with one underscore for the run
DeckKeyFormulaWitness ==
  \E r \in Reqs :
    /\ ValidDeck(r) /\ pc[r] = "get"
    /\ request[r].body.sourceLang = Some(OldNorseSpaced)
    /\ Len(cacheKey[r]) = Len(Joined(r)) - 2
    /\ cacheKey[r] = deriveDeckKey(Old, NorseUnderscoreFrench, Beginner)

\* another invocation than r has written the key of audio request r
WrittenByAnother(r) ==
  \E o \in Reqs :
    /\ o # r /\ ValidAudio(o) /\ AudioKeyOf(o) = AudioKeyOf(r)
    /\ settled[o].set = "resolved"

(***************************************************************************)
(* C21.  Audio miss without audio data.  An audio request whose speech     *)
(* call resolved without audio data has returned with the single response  *)
(* 500 and has called no set(); unless another request wrote it there is   *)
(* no document under its key, and the lookup of a later request for the    *)
(* same text, when it resolves, is a miss again.                           *)
(***************************************************************************)
NoAudioDataIsNotCached ==
  \A r \in Reqs :
    (ValidAudio(r) /\ settled[r].speech = "noInlineData") =>
      /\ Responded(r, 500)
      /\ calls[r].set = 0 /\ settled[r].set = "none"
      /\ ~WrittenByAnother(r) =>
           /\ AudioKeyOf(r) \notin DOMAIN speechAudio
           /\ \A o \in Reqs :
                (/\ o > r /\ ValidAudio(o)
                 /\ request[o].body.text = request[r].body.text
                 /\ settled[o].get \in {"exists", "absent"}
                 /\ settled[o].set # "resolved") =>
                  settled[o].get = "absent"

\* a speech call came back without audio data, and the next request for the
\* text missed again and called the provider
NoAudioDataIsNotCachedWitness ==
  \E r \in Reqs : \E o \in Reqs :
    /\ ValidAudio(r) /\ settled[r].speech = "noInlineData" /\ Responded(r, 500)
    /\ o > r /\ ValidAudio(o) /\ request[o].body.text = request[r].body.text
    /\ settled[o].get = "absent" /\ calls[o].speech = 1
    /\ AudioKeyOf(r) \notin DOMAIN speechAudio

\* the awaits a handler can be suspended at, in the order of its code
NextAwaits(label) ==
  CASE label = "idle" -> {"get", "done"}
    [] label = "get" -> {"text", "tts", "done"}
    [] label = "text" -> {"images", "done"}
    [] label = "images" -> {"images", "set"}
    [] label = "tts" -> {"set", "done"}
    [] label = "set" -> {"done"}
    [] OTHER -> {}

(***************************************************************************)
(* C22.  Request termination.  An invocation moves through validation,     *)
(* lookup, then either the answer of a hit or generation and persistence,  *)
(* and returns, and it has sent a response when it has returned; when      *)
(* every awaited store and provider call settles (SpecLive), from some     *)
(* point on every request received has returned.                           *)
(***************************************************************************)
RequestTerminates ==
  /\ [][\A r \in Reqs : pc'[r] # pc[r] => pc'[r] \in NextAwaits(pc[r])]_vars
  /\ [](\A r \in Reqs : pc[r] = "done" => Len(responses[r]) >= 1)
  /\ <>[](\A r \in Reqs : pc[r] \in {"idle", "done"})

\* a deck miss ran through generation and persistence to its response, and
\* an audio request returned after a failed speech call
RequestTerminatesWitness ==
  /\ \E r \in Reqs :
       /\ ValidDeck(r) /\ pc[r] = "done" /\ settled[r].set = "resolved"
       /\ calls[r].image > 0 /\ Len(responses[r]) >= 1
  /\ \E r \in Reqs :
       /\ ValidAudio(r) /\ pc[r] = "done" /\ settled[r].speech = "rejected"
       /\ Len(responses[r]) >= 1

(***************************************************************************)
(* C23.  Exactly one response per request.  An invocation of either        *)
(* handler that has returned, whether it answered 405, 400, a hit, a       *)
(* generated result or the 500 of its catch block, has sent exactly one    *)
(* response; an invocation that has not returned has sent none, so no      *)
(* invocation ever sends two.                                              *)
(***************************************************************************)
ExactlyOneResponse ==
  \A r \in Reqs :
    IF pc[r] = "done" THEN Len(responses[r]) = 1 ELSE Len(responses[r]) = 0

\* a deck invocation has returned through its catch block after the deck
\* was generated, an audio invocation has returned after storing its audio
ExactlyOneResponseWitness ==
  /\ \E r \in Reqs :
       /\ IsDeck(r) /\ pc[r] = "done" /\ settled[r].set = "rejected"
       /\ Len(responses[r]) = 1 /\ responses[r][1].status = 500
  /\ \E r \in Reqs :
       /\ IsAudio(r) /\ pc[r] = "done" /\ settled[r].set = "resolved"
       /\ Len(responses[r]) = 1 /\ responses[r][1].status = 200

\* the document id invocation r works under
KeyOf(r) == IF IsDeck(r) THEN DeckKeyOf(r) ELSE AudioKeyOf(r)

\* the step leaves what the flashcardDecks collection holds under id k alone
DeckEntryKept(k) ==
  IF k \in DOMAIN flashcardDecks
  THEN k \in DOMAIN flashcardDecks' /\ flashcardDecks'[k] = flashcardDecks[k]
  ELSE k \notin DOMAIN flashcardDecks'

\* the step leaves what the speechAudio collection holds under id k alone
AudioEntryKept(k) ==
  IF k \in DOMAIN speechAudio
  THEN k \in DOMAIN speechAudio' /\ speechAudio'[k] = speechAudio[k]
  ELSE k \notin DOMAIN speechAudio'

\* the step is the write of invocation r
Writes(r) == pc[r] = "set" /\ pc'[r] = "done" /\ settled'[r].set = "resolved"

\* the step is the resolution of the lookup of invocation r
Looks(r) == pc[r] = "get" /\ settled'[r].get \in {"exists", "absent"}

(***************************************************************************)
(* C24.  Key isolation.  In every step, under any interleaving of          *)
(* requests: an entry of flashcardDecks changes only under the key of a    *)
(* deck request whose write this step is, an entry of speechAudio only     *)
(* under the key of an audio request whose write this step is, so entries  *)
(* under every other key and every entry of the other collection stay as   *)
(* they were; and what a lookup finds is decided by the entry under the    *)
(* request's own key in its own collection: a hit exactly when that entry  *)
(* exists, answered with that entry's payload.                             *)
(***************************************************************************)
KeyIsolation ==
  [][/\ \A k \in DOMAIN flashcardDecks \cup DOMAIN flashcardDecks' :
          ~DeckEntryKept(k) =>
            \E r \in Reqs : ValidDeck(r) /\ Writes(r) /\ DeckKeyOf(r) = k
     /\ \A k \in DOMAIN speechAudio \cup DOMAIN speechAudio' :
          ~AudioEntryKept(k) =>
            \E r \in Reqs : ValidAudio(r) /\ Writes(r) /\ AudioKeyOf(r) = k
     /\ \A r \in Reqs :
          Looks(r) =>
            /\ (settled'[r].get = "exists") = (KeyOf(r) \in DOMAIN CollectionOf(r))
            /\ settled'[r].get = "exists" =>
                  responses'[r] =
                    <<Json(200, IF IsDeck(r)
                                THEN flashcardDecks[KeyOf(r)].cards
                                ELSE [audioContent |->
                                        speechAudio[KeyOf(r)].audioContent])>>
    ]_vars

\* a deck request and an audio request have each written their one entry
KeyIsolationWitness ==
  /\ \E r \in Reqs : ValidDeck(r) /\ settled[r].set = "resolved"
                        /\ DOMAIN flashcardDecks = {DeckKeyOf(r)}
  /\ \E r \in Reqs : ValidAudio(r) /\ settled[r].set = "resolved"
                        /\ DOMAIN speechAudio = {AudioKeyOf(r)}

\* the text call of deck request r resolved with an empty list of cards:
\* the request made as many image calls as the list has cards
EmptyDeck(r) ==
  ValidDeck(r) /\ settled[r].text = "resolved" /\ calls[r].image = 0

(***************************************************************************)
(* C25.  Empty deck is cached, requests not overlapping (SpecSeq).  A deck *)
(* request whose text call resolves with an empty list of card             *)
(* descriptions launches no image call and goes on to set() a document     *)
(* whose cards list is empty; when the set() resolves it has returned with *)
(* the single response 200 and an empty array and the document under its   *)
(* key has no cards, and every later request for that key makes no         *)
(* provider call, its lookup is no miss, and when it is a hit it returns   *)
(* 200 with the empty array.                                               *)
(***************************************************************************)
EmptyDeckIsCached ==
  \A r \in Reqs :
    /\ (ValidDeck(r) /\ cardDescriptions[r] = Some(<<>>)) =>
         calls[r].image = 0 /\ imageResults[r] = <<>>
    /\ EmptyDeck(r) =>
         /\ cardDescriptions[r] \in {Undefined, Some(<<>>)}
         /\ pc[r] = "set" => generated[r] = Some([cards |-> <<>>])
         /\ pc[r] = "done" => calls[r].set = 1 /\ settled[r].set # "none"
         /\ settled[r].set = "resolved" =>
              /\ responses[r] = <<Json(200, <<>>)>>
              /\ DeckKeyOf(r) \in DOMAIN flashcardDecks
              /\ flashcardDecks[DeckKeyOf(r)] = [cards |-> <<>>]
              /\ \A o \in Reqs :
                   (o > r /\ ValidDeck(o) /\ DeckKeyOf(o) = DeckKeyOf(r)) =>
                     /\ NoProviderCall(o)
                     /\ settled[o].get # "absent"
                     /\ settled[o].get = "exists" =>
                          responses[o] = <<Json(200, <<>>)>>

\* an empty deck was stored and a later request for its key was a hit
EmptyDeckIsCachedWitness ==
  \E r, o \in Reqs :
    /\ EmptyDeck(r) /\ settled[r].set = "resolved"
    /\ o > r /\ ValidDeck(o) /\ DeckKeyOf(o) = DeckKeyOf(r)
    /\ settled[o].get = "exists" /\ Responded(o, 200)

(***************************************************************************)
(* The App component (App.tsx): the pickers, fetchCards and the effect     *)
(* that calls it.  An event handler, the render its setters cause and the  *)
(* effect of that render run without another event in between; a call of   *)
(* fetchCards then waits for generateFlashcards, and calls that wait       *)
(* complete in any order.                                                  *)
(***************************************************************************)
\* the names of three of the LANGUAGES the pickers offer
LanguageNames == {French, English, Spanish}

\* what generateFlashcards resolves with: the cards of the text answer, each
\* with the image its call ended in
GeneratedDecks ==
  {AssembleDeck(d, [i \in 1..Len(d) |-> Settled(o)]) :
     d \in TextResultsUpTo(1), o \in {x \in ImageOutcomes : x.kind = "inlineData"}}

\* the message of the Error generateFlashcards throws
FailedToGenerate ==
  "Failed to generate flashcards. Please check your API key and try again."

\* the (sourceLang.name, targetLang.name, difficulty) of the current render
Selection == <<app.sourceLang, app.targetLang, app.difficulty>>

\* the calls of fetchCards so far, and whether the first effect has run
Started == Cardinality({f \in Fetches : fetches[f].state # "none"})
Mounted == Started > 0
InFlight(f) == fetches[f].state = "pending"

\* the render with selection (s, t, d) and fetchCards of that render, up to
\* its await: the closure holds s, t and d
fetchCards(s, t, d) ==
  /\ Started < MaxFetches
  /\ app' = [app EXCEPT !.sourceLang = s, !.targetLang = t, !.difficulty = d,
                        !.isLoading = TRUE, !.error = Null, !.cards = <<>>]
  /\ fetches' = [fetches EXCEPT ![Started + 1] =
                                  [state |-> "pending", args |-> <<s, t, d>>]]
  /\ shownFor' = <<>>
  /\ UNCHANGED server

\* the effect after the first render
Mount ==
  /\ ~Mounted
  /\ fetchCards(app.sourceLang, app.targetLang, app.difficulty)

\* the "From" picker: setSourceLang, then the effect as sourceLang changed
SelectSourceLang(l) ==
  /\ Mounted
  /\ l # app.sourceLang
  /\ fetchCards(l, app.targetLang, app.difficulty)

\* the "To" picker
SelectTargetLang(l) ==
  /\ Mounted
  /\ l # app.targetLang
  /\ fetchCards(app.sourceLang, l, app.difficulty)

\* the "Difficulty" picker
SelectDifficulty(d) ==
  /\ Mounted
  /\ d # app.difficulty
  /\ fetchCards(app.sourceLang, app.targetLang, d)

\* setSourceLang(targetLang); setTargetLang(sourceLang): one render, and the
\* effect runs when the two differ
handleSwapLanguages ==
  /\ Mounted
  /\ app.sourceLang # app.targetLang
  /\ fetchCards(app.targetLang, app.sourceLang, app.difficulty)

\* the button with onClick={fetchCards} disabled={isLoading}
ClickGenerate ==
  /\ Mounted
  /\ ~app.isLoading
  /\ fetchCards(app.sourceLang, app.targetLang, app.difficulty)

\* generateFlashcards of call f resolves: setCards(generatedCards), then the
\* finally block
FetchResolved(f, generatedCards) ==
  /\ InFlight(f)
  /\ app' = [app EXCEPT !.cards = generatedCards, !.isLoading = FALSE]
  /\ fetches' = [fetches EXCEPT ![f].state = "settled"]
  /\ shownFor' = Some(fetches[f].args)
  /\ UNCHANGED server

\* generateFlashcards of call f rejects: setError, then the finally block
FetchRejected(f) ==
  /\ InFlight(f)
  /\ app' = [app EXCEPT !.error = Some(FailedToGenerate), !.isLoading = FALSE]
  /\ fetches' = [fetches EXCEPT ![f].state = "settled"]
  /\ UNCHANGED <<shownFor, server>>

NextApp ==
  \/ Mount
  \/ \E l \in LanguageNames : SelectSourceLang(l)
  \/ \E l \in LanguageNames : SelectTargetLang(l)
  \/ \E d \in Difficulties : SelectDifficulty(d)
  \/ handleSwapLanguages
  \/ ClickGenerate
  \/ \E f \in Fetches : \E deck \in GeneratedDecks : FetchResolved(f, deck)
  \/ \E f \in Fetches : FetchRejected(f)

SpecApp == Init /\ [][NextApp]_vars

\* no call of fetchCards waits for generateFlashcards
NoFetchInFlight == \A f \in Fetches : ~InFlight(f)

(***************************************************************************)
(* C26.  Client deck matches selection.  In the App component, once every  *)
(* call of fetchCards has settled, the cards displayed, if a call put any  *)
(* there, are the result of a call made for the (source, target,           *)
(* difficulty) now selected, in whatever order the calls completed; and    *)
(* isLoading is false only when no call is in flight.                      *)
(***************************************************************************)
ClientDeckMatchesSelection ==
  /\ (Mounted /\ NoFetchInFlight) => shownFor \in {<<>>, Some(Selection)}
  /\ ~app.isLoading => NoFetchInFlight

====
